---- MODULE Spec2Model ----
(***************************************************************************)
(* Trial-synchronisation and condition-resolution logic of map-ephys:      *)
(*   - experiment.PhotostimBrainRegion.make   (laterality resolver)        *)
(*   - experiment.Breathing.make              (signal segmenter)           *)
(*   - plot.unit_psth alignment-name fallback (condition/alignment)        *)
(* Each component has its own specification (SpecPhotostim, SpecBreathing, *)
(* SpecAlign); the variables of the other components keep their initial    *)
(* values there.                                                           *)
(***************************************************************************)
EXTENDS Integers, Sequences, FiniteSets, TLC

\* ------------------------------------------------------------------------
\* Bounds of the model
\* ------------------------------------------------------------------------
NumProtocols == 2
MaxLocations == 3
MaxStream == 3
MaxTrials == 3
MaxTime == 4
MaxRigs == 2
MaxAlign == 2
MaxZaber == 1
MaxQuantile == 3

\* ------------------------------------------------------------------------
\* Generic helpers
\* ------------------------------------------------------------------------
Range(s) == {s[i] : i \in DOMAIN s}

SeqsUpTo(S, n) == UNION {[1..k -> S] : k \in 0..n}

Min2(a, b) == IF a < b THEN a ELSE b

Max2(a, b) == IF a > b THEN a ELSE b

\* ========================================================================
\* PhotostimBrainRegion.make
\* ========================================================================
VARIABLES PhotostimLocation, PhotostimBrainRegion, lat, psRaised

Protocols == 1..NumProtocols

BrainAreas == {"ALM", "M2"}

\* ml_location values after astype(float); only the sign matters to make
MlValues == {-3, 0, 5}

\* rows of Photostim.PhotostimLocation: the protocol they belong to, the
\* target brain area and the medial coordinate
LocationRows == [key : Protocols, brain_area : BrainAreas, ml_location : MlValues]

\* the table holds its rows in primary-key order, the protocol key first
IsKeyOrdered(t) == \A i \in 1..(Len(t) - 1) : t[i].key <= t[i + 1].key

\* Photostim.PhotostimLocation & key
RestrictToKey(t, key) == LET OfKey(r) == r.key = key IN SelectSeq(t, OfKey)

NotRun == "not run"
NoError == "no error"
MultipleAreasError == "ValueError: Multiple different brain areas for one photostim protocol is unsupported"
AmbiguousError == "ValueError: Ambiguous hemisphere: ML locations are all 0..."
AssertionFailed == "AssertionError"
IndexFailed == "IndexError"
NoLat == "unset"

\* (Photostim.PhotostimLocation & key).fetch('brain_area', 'ml_location')
fetch_brain_areas(key) ==
    LET rows == RestrictToKey(PhotostimLocation, key) IN [i \in DOMAIN rows |-> rows[i].brain_area]

fetch_ml_locations(key) ==
    LET rows == RestrictToKey(PhotostimLocation, key) IN [i \in DOMAIN rows |-> rows[i].ml_location]

\* numpy reductions of a boolean comparison array
np_any_gt0(a) == \E i \in DOMAIN a : a[i] > 0

np_any_lt0(a) == \E i \in DOMAIN a : a[i] < 0

np_all_gt0(a) == \A i \in DOMAIN a : a[i] > 0

np_all_lt0(a) == \A i \in DOMAIN a : a[i] < 0

np_all_eq0(a) == \A i \in DOMAIN a : a[i] = 0

\* if len(set(brain_areas)) > 1
MultipleBrainAreasMut(brain_areas) == Cardinality(Range(brain_areas)) > 2

MultipleBrainAreas(brain_areas) == Cardinality(Range(brain_areas)) > 1

\* the if/elif/else chain deriving lat (or raising)
LateralityBranchMutGe(ml_locations) ==
    IF np_any_gt0(ml_locations) /\ np_any_lt0(ml_locations)
    THEN [lat |-> "both", raised |-> NoError]
    ELSE IF \A i \in DOMAIN ml_locations : ml_locations[i] >= 0
    THEN [lat |-> "right", raised |-> NoError]
    ELSE IF np_all_lt0(ml_locations)
    THEN [lat |-> "left", raised |-> NoError]
    ELSE IF ~ np_all_eq0(ml_locations)
    THEN [lat |-> NoLat, raised |-> AssertionFailed]
    ELSE [lat |-> NoLat, raised |-> AmbiguousError]

LateralityBranchMutDefault(ml_locations) ==
    IF np_any_gt0(ml_locations) /\ np_any_lt0(ml_locations)
    THEN [lat |-> "both", raised |-> NoError]
    ELSE IF np_all_gt0(ml_locations)
    THEN [lat |-> "right", raised |-> NoError]
    ELSE [lat |-> "left", raised |-> NoError]

LateralityBranchMutFirst(ml_locations) ==
    IF np_any_gt0(ml_locations) /\ np_any_lt0(ml_locations)
    THEN [lat |-> "both", raised |-> NoError]
    ELSE IF Len(ml_locations) > 0 /\ ml_locations[1] > 0
    THEN [lat |-> "right", raised |-> NoError]
    ELSE IF Len(ml_locations) > 0 /\ ml_locations[1] < 0
    THEN [lat |-> "left", raised |-> NoError]
    ELSE IF ~ np_all_eq0(ml_locations)
    THEN [lat |-> NoLat, raised |-> AssertionFailed]
    ELSE [lat |-> NoLat, raised |-> AmbiguousError]

LateralityBranch(ml_locations) ==
    IF np_any_gt0(ml_locations) /\ np_any_lt0(ml_locations)
    THEN [lat |-> "both", raised |-> NoError]
    ELSE IF np_all_gt0(ml_locations)
    THEN [lat |-> "right", raised |-> NoError]
    ELSE IF np_all_lt0(ml_locations)
    THEN [lat |-> "left", raised |-> NoError]
    ELSE IF ~ np_all_eq0(ml_locations)
    THEN [lat |-> NoLat, raised |-> AssertionFailed]
    ELSE [lat |-> NoLat, raised |-> AmbiguousError]

\* the whole body of make: outcome for the fetched columns
MakeOutcome(brain_areas, ml_locations) ==
    IF MultipleBrainAreas(brain_areas)
    THEN [lat |-> NoLat, raised |-> MultipleAreasError, row |-> <<>>]
    ELSE LET b == LateralityBranch(ml_locations) IN
         IF b.raised # NoError
         THEN [lat |-> b.lat, raised |-> b.raised, row |-> <<>>]
         ELSE IF Len(brain_areas) = 0
         THEN [lat |-> b.lat, raised |-> IndexFailed, row |-> <<>>]
         ELSE [lat |-> b.lat, raised |-> NoError,
               row |-> <<[stim_brain_area |-> brain_areas[1], stim_laterality |-> b.lat]>>]

PopulatedKeys == {r.key : r \in PhotostimBrainRegion}

\* populate calls make(key) for a protocol that has no row yet
PhotostimBrainRegionMake(key) ==
    /\ key \notin PopulatedKeys
    /\ LET out == MakeOutcome(fetch_brain_areas(key), fetch_ml_locations(key)) IN
         /\ lat' = [lat EXCEPT ![key] = out.lat]
         /\ psRaised' = [psRaised EXCEPT ![key] = out.raised]
         /\ PhotostimBrainRegion' = PhotostimBrainRegion \cup
                {[key |-> key, stim_brain_area |-> out.row[i].stim_brain_area,
                  stim_laterality |-> out.row[i].stim_laterality] : i \in DOMAIN out.row}
    /\ UNCHANGED PhotostimLocation

psVars == <<PhotostimLocation, PhotostimBrainRegion, lat, psRaised>>

PhotostimInit ==
    /\ PhotostimLocation \in {t \in SeqsUpTo(LocationRows, MaxLocations) : IsKeyOrdered(t)}
    /\ PhotostimBrainRegion = {}
    /\ lat = [k \in Protocols |-> NoLat]
    /\ psRaised = [k \in Protocols |-> NotRun]

PhotostimIdle ==
    /\ PhotostimLocation = <<>>
    /\ PhotostimBrainRegion = {}
    /\ lat = [k \in Protocols |-> NoLat]
    /\ psRaised = [k \in Protocols |-> NotRun]

\* ========================================================================
\* Breathing.make
\* ========================================================================
VARIABLES openHandles, SessionTrial, rigpaths, session_ephys_dir, trial_start_times, meta,
          rawData, trial_starts_indices, breathing_data, all_trials_data, idx,
          pc, brRaised, Breathing

\* trial start times are counted in 1/TimeResolution seconds
TimeResolution == 2

\* raw int16 samples of the breathing channel
SampleValues == {-1, 2}

\* integer-to-volt conversion factors (fI2V / channel gain) of the stream
GainFactors == {2, 3}

Metas == [typeThis : {"imec", "nidq"}, sRate : {1, 2},
          convIM : GainFactors, convNI : GainFactors]

NoMeta == [typeThis |-> "", sRate |-> 0, convIM |-> 0, convNI |-> 0]

\* all strictly increasing sequences of at most MaxTrials start times
IsIncreasing(t) == \A i \in 1..(Len(t) - 1) : t[i] < t[i + 1]

TrialStartTimes == {t \in SeqsUpTo(0..MaxTime, MaxTrials) : IsIncreasing(t)}

Streams == UNION {[1..k -> SampleValues] : k \in 1..MaxStream}

FileNotFound == "FileNotFoundError: Error - No session folder found"
NotSubscriptable == "TypeError: 'method' object is not subscriptable"

\* a[start:end] of Python for a one-dimensional array (0-based, end exclusive,
\* a negative bound counts from the end, bounds are clamped to the array)
PyBound(n, b) == IF b < 0 THEN Max2(n + b, 0) ELSE Min2(b, n)

PySlice(a, start, end) == SubSeq(a, PyBound(Len(a), start) + 1, PyBound(Len(a), end))

\* m[:, start:end] for a two-dimensional array held as a sequence of rows
ColSlice(m, start, end) == [r \in DOMAIN m |-> PySlice(m[r], start, end)]

\* ndarray.flatten(): the rows one after the other
RECURSIVE Flatten(_)
Flatten(m) == IF Len(m) = 0 THEN <<>> ELSE Head(m) \o Flatten(Tail(m))

\* (trial_start_times * sRate).astype(int): truncation of the product
AstypeInt(times, sRate) == [i \in DOMAIN times |-> (times[i] * sRate) \div TimeResolution]

\* readSGLX.GainCorrectIM / GainCorrectNI: each sample times the conversion
\* factor of the channel, returned as a new array
GainCorrectIM(data, m) == [r \in DOMAIN data |-> [c \in DOMAIN data[r] |-> data[r][c] * m.convIM]]

GainCorrectNI(data, m) == [r \in DOMAIN data |-> [c \in DOMAIN data[r] |-> data[r][c] * m.convNI]]

Scale(k, data) == [r \in DOMAIN data |-> [c \in DOMAIN data[r] |-> k * data[r][c]]]

\* the if/else on meta['typeThis']
GainBranchMutTwice(data, m) ==
    IF m.typeThis = "imec"
    THEN Scale(1000000, GainCorrectIM(GainCorrectIM(data, m), m))
    ELSE Scale(1000, GainCorrectNI(data, m))

GainBranch(data, m) ==
    IF m.typeThis = "imec"
    THEN Scale(1000000, GainCorrectIM(data, m))
    ELSE Scale(1000, GainCorrectNI(data, m))

\* end_idx of one loop iteration (idx is 0-based, sequences are 1-based)
EndIdx(starts, i) ==
    IF starts[i + 1] < starts[Len(starts)] THEN starts[i + 2] ELSE -1

\* range(len(trial_starts_indices))
LoopRangeMut(starts) == Len(starts) - 1

LoopRange(starts) == Len(starts)

\* the rig path the for loop breaks at: the first one for which
\* _get_sess_dir yields a session directory, 0 when the loop runs to its end
SessionDirSearchMutLast(paths) ==
    IF \E i \in DOMAIN paths : paths[i]
    THEN CHOOSE i \in DOMAIN paths : paths[i] /\ \A j \in (i + 1)..Len(paths) : ~ paths[j]
    ELSE 0

SessionDirSearch(paths) ==
    IF \E i \in DOMAIN paths : paths[i]
    THEN CHOOSE i \in DOMAIN paths : paths[i] /\ \A j \in 1..(i - 1) : ~ paths[j]
    ELSE 0

\* for rigpath in rigpaths: ... break / else: raise FileNotFoundError
FindSessionDir ==
    /\ pc = "rigpaths"
    /\ IF SessionDirSearch(rigpaths) # 0
       THEN /\ session_ephys_dir' = SessionDirSearch(rigpaths)
            /\ pc' = "bitcode"
            /\ UNCHANGED brRaised
       ELSE /\ brRaised' = FileNotFound
            /\ pc' = "raised"
            /\ UNCHANGED session_ephys_dir
    /\ UNCHANGED <<openHandles, SessionTrial, rigpaths, trial_start_times, meta, rawData, trial_starts_indices,
                   breathing_data, all_trials_data, idx, Breathing>>

\* bitcodes, trial_start_times = ephys_ingest.build_bitcode(session_ephys_dir)
BuildBitcode ==
    /\ pc = "bitcode"
    /\ \E t \in TrialStartTimes : trial_start_times' = t
    /\ pc' = "read"
    /\ UNCHANGED <<openHandles, SessionTrial, rigpaths, session_ephys_dir, meta, rawData, trial_starts_indices,
                   breathing_data, all_trials_data, idx, brRaised, Breathing>>

\* rawData = readSGLX.makeMemMapRaw(binFullPath, meta): the memory map of
\* the binary file stays open as long as rawData is bound; make has no
\* with-block, try/finally, del or close for it
MakeMemMapRaw(handles) == handles \cup {"rawData"}

\* readMeta, SampRate, makeMemMapRaw and the conversion of times to indices
ReadStream ==
    /\ pc = "read"
    /\ \E m \in Metas, raw \in Streams :
         /\ meta' = m
         /\ rawData' = raw
         /\ trial_starts_indices' = AstypeInt(trial_start_times, m.sRate)
    /\ openHandles' = MakeMemMapRaw(openHandles)
    /\ pc' = "gain"
    /\ UNCHANGED <<SessionTrial, rigpaths, session_ephys_dir, trial_start_times, breathing_data,
                   all_trials_data, idx, brRaised, Breathing>>

\* breathing_data = rawData[chanList, :] followed by the gain correction
GainCorrect ==
    /\ pc = "gain"
    /\ breathing_data' = GainBranch(<<rawData>>, meta)
    /\ all_trials_data' = <<>>
    /\ idx' = 0
    /\ pc' = "segment"
    /\ UNCHANGED <<openHandles, SessionTrial, rigpaths, session_ephys_dir, trial_start_times, meta, rawData,
                   trial_starts_indices, brRaised, Breathing>>

\* one iteration of the segmentation loop
SegmentTrial ==
    /\ pc = "segment"
    /\ idx < LoopRange(trial_starts_indices)
    /\ LET start_idx == trial_starts_indices[idx + 1]
           end_idx == EndIdx(trial_starts_indices, idx)
           trial_data == Flatten(ColSlice(breathing_data, start_idx, end_idx))
       IN all_trials_data' = Append(all_trials_data, trial_data)
    /\ idx' = idx + 1
    /\ UNCHANGED <<openHandles, SessionTrial, rigpaths, session_ephys_dir, trial_start_times, meta, rawData,
                   trial_starts_indices, breathing_data, pc, brRaised, Breathing>>

\* self.insert[all_trials_data]: subscripting the bound method raises
InsertTrials ==
    /\ pc = "segment"
    /\ idx >= LoopRange(trial_starts_indices)
    /\ brRaised' = NotSubscriptable
    /\ pc' = "raised"
    /\ UNCHANGED <<openHandles, SessionTrial, rigpaths, session_ephys_dir, trial_start_times, meta, rawData,
                   trial_starts_indices, breathing_data, all_trials_data, idx, Breathing>>

brVars == <<openHandles, SessionTrial, rigpaths, session_ephys_dir, trial_start_times, meta, rawData,
            trial_starts_indices, breathing_data, all_trials_data, idx, pc,
            brRaised, Breathing>>

BreathingLocals ==
    /\ openHandles = {}
    /\ session_ephys_dir = 0
    /\ trial_start_times = <<>>
    /\ meta = NoMeta
    /\ rawData = <<>>
    /\ trial_starts_indices = <<>>
    /\ breathing_data = <<>>
    /\ all_trials_data = <<>>
    /\ idx = 0
    /\ brRaised = NoError
    /\ Breathing = {}

\* the session's SessionTrial rows: trial numbers 1..n (1-based, contiguous)
SessionTrialSets == {1..n : n \in 0..MaxTrials}

BreathingInit ==
    /\ SessionTrial \in SessionTrialSets
    /\ rigpaths \in SeqsUpTo(BOOLEAN, MaxRigs)
    /\ pc = "rigpaths"
    /\ BreathingLocals

BreathingIdle ==
    /\ SessionTrial = {}
    /\ rigpaths = <<>>
    /\ pc = "idle"
    /\ BreathingLocals

\* ========================================================================
\* plot_unit_psth_choice_outcome / plot_unit_psth_latent_variable_quantile:
\* alignment-name fallback
\* ========================================================================
VARIABLES requested, zaberready, align_types, alCaller,
          hemi, no_early_lick, n_quantile, df, BehaviorTrial, ax_i, psths,
          vlines, if_exclude_early_lick, trial_condition_names, alPc, alRaised

\* align_type_name values a caller may pass
AlignTypeNames == {"trial_start", "go_cue", "iti_start", "next_trial_start", "trial_start_bitcode"}

\* 'sub' in s
StrContainsMutPrefix(sub, s) ==
    /\ Len(s) >= Len(sub)
    /\ SubSeq(s, 1, Len(sub)) = sub

StrContains(sub, s) ==
    \E i \in 1..(Len(s) - Len(sub) + 1) : SubSeq(s, i, i + Len(sub) - 1) = sub

\* [a + '_bitcode' if 'trial_start' in a else a for a in align_types]
RewriteAlignTypes(types) ==
    [i \in DOMAIN types |->
        IF StrContains("trial_start", types[i]) THEN types[i] \o "_bitcode" ELSE types[i]]

\* if not ephys.TrialEvent & unit_key & 'trial_event_type = "zaberready"': ...
AlignFallback(types, n_zaberready) ==
    IF n_zaberready = 0 THEN RewriteAlignTypes(types) ELSE types

\* psth_foraging.AlignType: trial_offset of every known align_type_name
AlignType ==
    [a \in {"trial_start", "go_cue", "iti_start", "next_trial_start",
            "trial_start_bitcode", "next_trial_start_bitcode"} |->
        IF a \in {"next_trial_start", "next_trial_start_bitcode"} THEN 1 ELSE 0]

DataJointError == "DataJointError: fetch1 should only return one tuple"
EmptyAxesError == "IndexError"

\* (AlignType & {'align_type_name': align_type}).fetch1('trial_offset', 'xlim'):
\* fetch1 raises unless exactly one row matches
Fetch1Raises(align_type) == align_type \notin DOMAIN AlignType

Fetch1Offset(align_type) == AlignType[align_type]

\* a missing value (numpy nan) in a float column
NaN == -1

\* latent-variable values of the fitted model, other than nan
LatentValues == {0, 1, 3}

\* the two columns of the frame: trial numbers 1..n and one value per trial
Frames == UNION {[1..n -> [trial : 1..n, value : LatentValues \cup {NaN},
                           quantile_rank : {NaN}]] : n \in 1..MaxTrials}

IsFrame(f) == \A i \in DOMAIN f : f[i].trial = i

Column(f, c) == [i \in DOMAIN f |-> f[i][c]]

\* any(np.isnan(df[latent_variable]))
AnyIsNaNMutAll(x) == \A i \in DOMAIN x : x[i] = NaN

AnyIsNaN(x) == \E i \in DOMAIN x : x[i] = NaN

\* ---- pandas.qcut(x, q, labels=False, duplicates='drop') ----
SortAsc(x) == SortSeq(x, LAMBDA a, b : a < b)

\* q times the (i/q)-quantile of the sorted values, linear interpolation
QuantileScaled(xs, i, q) ==
    LET h == (Len(xs) - 1) * i
        j == h \div q
        r == h % q
        lo == xs[j + 1]
        hi == xs[Min2(j + 2, Len(xs))]
    IN q * lo + r * (hi - lo)

\* the q + 1 bin edges (times q)
QuantileBins(x, q) == [i \in 1..(q + 1) |-> QuantileScaled(SortAsc(x), i - 1, q)]

\* algos.unique: first occurrences, in order
RECURSIVE Unique(_)
Unique(b) ==
    IF Len(b) <= 1 THEN b
    ELSE LET u == Unique(SubSeq(b, 1, Len(b) - 1)) IN
         IF b[Len(b)] \in Range(u) THEN u ELSE Append(u, b[Len(b)])

\* duplicates='drop' (two bin edges are never reduced)
DropDuplicateBins(bins) ==
    IF Len(Unique(bins)) < Len(bins) /\ Len(bins) # 2 THEN Unique(bins) ELSE bins

\* bins.searchsorted(v, side='left')
SearchSortedLeft(bins, v) == Cardinality({i \in DOMAIN bins : bins[i] < v})

\* _bins_to_cuts(..., labels=False, include_lowest=True): ids - 1, nan where
\* the value falls outside the bins
BinIndexMutReversed(bins, v) ==
    LET ids == IF v = bins[1] THEN 1 ELSE SearchSortedLeft(bins, v) IN
    IF ids = Len(bins) \/ ids = 0 THEN NaN ELSE Len(bins) - 1 - ids

BinIndex(bins, v) ==
    LET ids == IF v = bins[1] THEN 1 ELSE SearchSortedLeft(bins, v) IN
    IF ids = Len(bins) \/ ids = 0 THEN NaN ELSE ids - 1

qcut(x, q) ==
    LET bins == DropDuplicateBins(QuantileBins(x, q)) IN
    [i \in DOMAIN x |-> BinIndex(bins, q * x[i])]

\* len(df['quantile_rank'].unique()): nan counts as one value
NUnique(x) == Cardinality(Range(x))

\* ---- trial sets ----
\* trial_num = df[df.quantile_rank == rank].copy(); trial_num.trial += offset
ShiftTrialMutClamp(t, offset) == Min2(t + offset, Cardinality(BehaviorTrial))

ShiftTrial(t, offset) == t + offset

TrialNum(f, rank, offset) ==
    {ShiftTrial(f[i].trial, offset) : i \in {j \in DOMAIN f : f[j].quantile_rank = rank}}

\* (experiment.BehaviorTrial & unit_key & trial_num).proj()
ThisTrials(f, rank, offset) == BehaviorTrial \cap TrialNum(f, rank, offset)

\* the psths of one alignment type: one per rank in range(n_quantile)
QuantilePsths(f, nq, align_type, offset) ==
    [k \in 1..nq |-> [align_type |-> align_type, cond |-> "quantile", rank |-> k - 1,
                      offset |-> offset, trials |-> ThisTrials(f, k - 1, offset)]]

\* the frame after the inner loop over the ranks: each group is shifted in
\* a copy (df[...].copy()), the frame itself is never written
FrameAfterRanksMutInPlace(f, nq, offset) ==
    [i \in DOMAIN f |->
        IF f[i].quantile_rank \in 0..(nq - 1)
        THEN [f[i] EXCEPT !.trial = f[i].trial + offset] ELSE f[i]]

FrameAfterRanks(f, nq, offset) == f

\* trial_keys of the event-time markers: experiment.BehaviorTrial & unit_key & df
QuantileMarkers(f, align_type) ==
    [align_type |-> align_type, cond |-> "all", offset |-> 0,
     trials |-> BehaviorTrial \cap {f[i].trial : i \in DOMAIN f}]

\* values of _get_units_hemisphere(unit_key); the plot functions test only
\* hemi == "left" and treat every other value alike
HemiValues == {"left", "right", "both"}

\* ipsi = "L" if hemi == "left" else "R"
Ipsi(h) == IF h = "left" THEN "L" ELSE "R"

\* contra = "R" if hemi == "left" else "L"
ContraMutRight(h) == IF h = "right" THEN "R" ELSE "L"

Contra(h) == IF h = "left" THEN "R" ELSE "L"

\* the four conditions of plot_unit_psth_choice_outcome, in the order computed
ChoiceOutcomeConds(h, nel) ==
    <<Ipsi(h) \o "_hit" \o nel, Contra(h) \o "_hit" \o nel,
      Ipsi(h) \o "_miss" \o nel, Contra(h) \o "_miss" \o nel>>

\* the four trial_condition_name values of plot_unit_psth, in the order
\* computed: ipsi hit, contra hit, ipsi miss, contra miss
UnitPsthConds(h) ==
    LET ipsi == IF h = "left" THEN "left" ELSE "right"
        contra == IF h = "left" THEN "right" ELSE "left"
    IN <<"good_noearlylick_" \o ipsi \o "_hit", "good_noearlylick_" \o contra \o "_hit",
         "good_noearlylick_" \o ipsi \o "_miss", "good_noearlylick_" \o contra \o "_miss">>

ChoiceOutcomePsths(h, nel, align_type, offset) ==
    LET conds == ChoiceOutcomeConds(h, nel) IN
    [k \in 1..4 |-> [align_type |-> align_type, cond |-> conds[k], rank |-> NaN,
                     offset |-> offset, trials |-> {}]]

\* ---- plot_unit_psth ----
\* the function takes no alignment types: it resolves the hemisphere and
\* asks psth.UnitPsth for the plotting data of its four conditions
plot_unit_psth ==
    /\ alCaller = "none"
    /\ requested = <<>>
    /\ alCaller' = "plot_unit_psth"
    /\ hemi' \in HemiValues
    /\ trial_condition_names' = UnitPsthConds(hemi')
    /\ alPc' = "done"
    /\ UNCHANGED <<requested, zaberready, align_types, no_early_lick, if_exclude_early_lick,
                   n_quantile, df, BehaviorTrial, ax_i, psths, vlines, alRaised>>

\* trial_keys of the event-time markers: get_trials(f'LR_hit{no_early_lick}')
\* & unit_key, without offset
ChoiceOutcomeMarkers(nel, align_type) ==
    [align_type |-> align_type, cond |-> "LR_hit" \o nel, offset |-> 0, trials |-> {}]

\* ---- plot_unit_psth_choice_outcome ----
\* entry: the fallback, hemisphere and early-lick suffix
plot_unit_psth_choice_outcome ==
    /\ alCaller = "none"
    /\ align_types' = AlignFallback(requested, zaberready)
    /\ alCaller' = "plot_unit_psth_choice_outcome"
    /\ hemi' \in HemiValues
    /\ if_exclude_early_lick' \in BOOLEAN
    /\ no_early_lick' = IF if_exclude_early_lick' THEN "_noearlylick" ELSE ""
    /\ ax_i' = 0
    /\ psths' = <<>>
    /\ vlines' = <<>>
    /\ alPc' = "loop"
    /\ UNCHANGED <<trial_condition_names, requested, zaberready, n_quantile, df,
                   BehaviorTrial, alRaised>>

\* one iteration of: for ax_i, align_type in enumerate(align_types)
ChoiceOutcomeAlignTypeMutSkip ==
    /\ alCaller = "plot_unit_psth_choice_outcome"
    /\ alPc = "loop"
    /\ ax_i < Len(align_types)
    /\ LET align_type == align_types[ax_i + 1] IN
         IF Fetch1Raises(align_type)
         THEN UNCHANGED <<psths, vlines>>
         ELSE /\ psths' = psths \o ChoiceOutcomePsths(hemi, no_early_lick, align_type,
                                                      Fetch1Offset(align_type))
              /\ vlines' = Append(vlines, ChoiceOutcomeMarkers(no_early_lick, align_type))
    /\ ax_i' = ax_i + 1
    /\ UNCHANGED <<trial_condition_names, requested, zaberready, align_types, alCaller,
                   hemi, no_early_lick, if_exclude_early_lick,
                   n_quantile, df, BehaviorTrial, alPc, alRaised>>

ChoiceOutcomeAlignType ==
    /\ alCaller = "plot_unit_psth_choice_outcome"
    /\ alPc = "loop"
    /\ ax_i < Len(align_types)
    /\ LET align_type == align_types[ax_i + 1] IN
         IF Fetch1Raises(align_type)
         THEN /\ alRaised' = DataJointError
              /\ alPc' = "raised"
              /\ UNCHANGED <<ax_i, psths, vlines>>
         ELSE /\ psths' = psths \o ChoiceOutcomePsths(hemi, no_early_lick, align_type,
                                                      Fetch1Offset(align_type))
              /\ vlines' = Append(vlines, ChoiceOutcomeMarkers(no_early_lick, align_type))
              /\ ax_i' = ax_i + 1
              /\ UNCHANGED <<alPc, alRaised>>
    /\ UNCHANGED <<trial_condition_names, requested, zaberready, align_types, alCaller,
                   hemi, no_early_lick, if_exclude_early_lick,
                   n_quantile, df, BehaviorTrial>>

\* ---- plot_unit_psth_latent_variable_quantile ----
\* entry: the fallback
plot_unit_psth_latent_variable_quantile ==
    /\ alCaller = "none"
    /\ align_types' = AlignFallback(requested, zaberready)
    /\ alCaller' = "plot_unit_psth_latent_variable_quantile"
    /\ \E q \in 1..MaxQuantile : n_quantile' = q
    /\ alPc' = "fetch"
    /\ UNCHANGED <<trial_condition_names, requested, zaberready, hemi, no_early_lick,
                   if_exclude_early_lick, df, BehaviorTrial, ax_i, psths, vlines, alRaised>>

\* fetch the frame, return on nan, else cut into quantiles
CutQuantiles ==
    /\ alCaller = "plot_unit_psth_latent_variable_quantile"
    /\ alPc = "fetch"
    /\ \E f \in Frames :
         /\ IsFrame(f)
         /\ BehaviorTrial' = {f[i].trial : i \in DOMAIN f}
         /\ IF AnyIsNaN(Column(f, "value"))
            THEN /\ df' = f
                 /\ alPc' = "returned"
                 /\ UNCHANGED n_quantile
            ELSE LET ranks == qcut(Column(f, "value"), n_quantile) IN
                 /\ df' = [i \in DOMAIN f |-> [f[i] EXCEPT !.quantile_rank = ranks[i]]]
                 /\ n_quantile' = NUnique(ranks)
                 /\ alPc' = "loop"
    /\ ax_i' = 0
    /\ psths' = <<>>
    /\ vlines' = <<>>
    /\ UNCHANGED <<trial_condition_names, requested, zaberready, align_types, alCaller,
                   hemi, no_early_lick, if_exclude_early_lick,
                   alRaised>>

\* one iteration of: for ax_i, align_type in enumerate(align_types)
QuantileAlignType ==
    /\ alCaller = "plot_unit_psth_latent_variable_quantile"
    /\ alPc = "loop"
    /\ ax_i < Len(align_types)
    /\ LET align_type == align_types[ax_i + 1] IN
         IF Fetch1Raises(align_type)
         THEN /\ alRaised' = DataJointError
              /\ alPc' = "raised"
              /\ UNCHANGED <<ax_i, psths, vlines, df>>
         ELSE /\ psths' = psths \o QuantilePsths(df, n_quantile, align_type,
                                                 Fetch1Offset(align_type))
              /\ df' = FrameAfterRanks(df, n_quantile, Fetch1Offset(align_type))
              /\ vlines' = Append(vlines, QuantileMarkers(df', align_type))
              /\ ax_i' = ax_i + 1
              /\ UNCHANGED <<alPc, alRaised>>
    /\ UNCHANGED <<trial_condition_names, requested, zaberready, align_types, alCaller,
                   hemi, no_early_lick, if_exclude_early_lick,
                   n_quantile, BehaviorTrial>>

\* after the loop (either function): with no alignment type there is no
\* axis, and _set_same_horizonal_aspect_ratio fails at axs[0]; else the
\* figure is returned
FinishPlot ==
    /\ alPc = "loop"
    /\ ax_i >= Len(align_types)
    /\ IF Len(align_types) = 0
       THEN alRaised' = EmptyAxesError /\ alPc' = "raised"
       ELSE alPc' = "done" /\ UNCHANGED alRaised
    /\ UNCHANGED <<trial_condition_names, requested, zaberready, align_types, alCaller,
                   hemi, no_early_lick, if_exclude_early_lick,
                   n_quantile, df, BehaviorTrial, ax_i, psths, vlines>>

alVars == <<requested, zaberready, align_types, alCaller,
            hemi, no_early_lick, n_quantile, df, BehaviorTrial, ax_i, psths,
            vlines, if_exclude_early_lick, trial_condition_names, alPc, alRaised>>

AlignLocals ==
    /\ alCaller = "none"
    /\ hemi = ""
    /\ no_early_lick = ""
    /\ if_exclude_early_lick = FALSE
    /\ trial_condition_names = <<>>
    /\ n_quantile = 0
    /\ df = <<>>
    /\ BehaviorTrial = {}
    /\ ax_i = 0
    /\ psths = <<>>
    /\ vlines = <<>>
    /\ alPc = "entry"
    /\ alRaised = NoError

AlignInit ==
    /\ requested \in SeqsUpTo(AlignTypeNames, MaxAlign)
    /\ zaberready \in 0..MaxZaber
    /\ align_types = requested
    /\ AlignLocals

AlignIdle ==
    /\ requested = <<>>
    /\ zaberready = 0
    /\ align_types = <<>>
    /\ AlignLocals

\* ========================================================================
\* Specifications
\* ========================================================================
vars == <<psVars, brVars, alVars>>

InitPhotostim == PhotostimInit /\ BreathingIdle /\ AlignIdle

NextPhotostim ==
    \E key \in Protocols : PhotostimBrainRegionMake(key) /\ UNCHANGED <<brVars, alVars>>

SpecPhotostim == InitPhotostim /\ [][NextPhotostim]_vars

InitBreathing == BreathingInit /\ PhotostimIdle /\ AlignIdle

NextBreathing ==
    \/ FindSessionDir /\ UNCHANGED <<psVars, alVars>>
    \/ BuildBitcode /\ UNCHANGED <<psVars, alVars>>
    \/ ReadStream /\ UNCHANGED <<psVars, alVars>>
    \/ GainCorrect /\ UNCHANGED <<psVars, alVars>>
    \/ SegmentTrial /\ UNCHANGED <<psVars, alVars>>
    \/ InsertTrials /\ UNCHANGED <<psVars, alVars>>

SpecBreathing == InitBreathing /\ [][NextBreathing]_vars

InitAlign == AlignInit /\ PhotostimIdle /\ BreathingIdle

NextAlign ==
    \/ plot_unit_psth_choice_outcome /\ UNCHANGED <<psVars, brVars>>
    \/ ChoiceOutcomeAlignType /\ UNCHANGED <<psVars, brVars>>
    \/ plot_unit_psth_latent_variable_quantile /\ UNCHANGED <<psVars, brVars>>
    \/ CutQuantiles /\ UNCHANGED <<psVars, brVars>>
    \/ QuantileAlignType /\ UNCHANGED <<psVars, brVars>>
    \/ FinishPlot /\ UNCHANGED <<psVars, brVars>>
    \/ plot_unit_psth /\ UNCHANGED <<psVars, brVars>>

SpecAlign == InitAlign /\ [][NextAlign]_vars

\* ========================================================================
\* Properties of PhotostimBrainRegion.make
\* ========================================================================
\* the positions of the location rows of one protocol
LocsOf(key) == {i \in DOMAIN PhotostimLocation : PhotostimLocation[i].key = key}

MlAt(i) == PhotostimLocation[i].ml_location

SameBrainArea(key) ==
    \A i, j \in LocsOf(key) : PhotostimLocation[i].brain_area = PhotostimLocation[j].brain_area

RowsOf(key) == {r \in PhotostimBrainRegion : r.key = key}

\* C1: for a non-empty set of locations with one common brain area, make
\* derives 'both' exactly when some ml coordinate is > 0 and some is < 0,
\* 'right' exactly when all are > 0, 'left' exactly when all are < 0, and
\* the stored brain area is the common brain area of the locations.
C1_LateralityRule ==
    \A key \in Protocols :
        (psRaised[key] # NotRun /\ LocsOf(key) # {} /\ SameBrainArea(key)) =>
            /\ (lat[key] = "both") <=>
                   ((\E i \in LocsOf(key) : MlAt(i) > 0) /\ (\E i \in LocsOf(key) : MlAt(i) < 0))
            /\ (lat[key] = "right") <=> (\A i \in LocsOf(key) : MlAt(i) > 0)
            /\ (lat[key] = "left") <=> (\A i \in LocsOf(key) : MlAt(i) < 0)
            /\ lat[key] \in {"both", "right", "left"} =>
                   \A i \in LocsOf(key) :
                       RowsOf(key) = {[key |-> key,
                                       stim_brain_area |-> PhotostimLocation[i].brain_area,
                                       stim_laterality |-> lat[key]]}

C1_Witness ==
    \E k1, k2 \in Protocols :
        /\ Cardinality(LocsOf(k1)) = 2
        /\ SameBrainArea(k1)
        /\ LocsOf(k2) # {}
        /\ \E r \in RowsOf(k1) : r.stim_laterality = "both"
        /\ \E r \in RowsOf(k2) : r.stim_laterality = "left"

\* C5: when all locations share one brain area and every ml coordinate is
\* exactly 0, make raises the 'Ambiguous hemisphere' ValueError, derives no
\* laterality label and stores no row.
C5_AllZeroAmbiguous ==
    \A key \in Protocols :
        (psRaised[key] # NotRun /\ LocsOf(key) # {} /\ SameBrainArea(key)
            /\ \A i \in LocsOf(key) : MlAt(i) = 0) =>
            /\ psRaised[key] = AmbiguousError
            /\ lat[key] \notin {"both", "right", "left"}
            /\ RowsOf(key) = {}

C5_Witness ==
    \E key \in Protocols :
        /\ Cardinality(LocsOf(key)) = 2
        /\ SameBrainArea(key)
        /\ \A i \in LocsOf(key) : MlAt(i) = 0
        /\ psRaised[key] = AmbiguousError

\* C6: when the ml coordinates (one common brain area) contain a 0 together
\* with non-zero values that all lie on one side of zero, make fails with
\* the ambiguous-hemisphere error and with no other kind of failure.
C6_ZeroWithOneSideAmbiguous ==
    \A key \in Protocols :
        (psRaised[key] # NotRun /\ SameBrainArea(key)
            /\ (\E i \in LocsOf(key) : MlAt(i) = 0)
            /\ (\E i \in LocsOf(key) : MlAt(i) # 0)
            /\ ((\A i \in LocsOf(key) : MlAt(i) >= 0) \/ (\A i \in LocsOf(key) : MlAt(i) <= 0))) =>
            psRaised[key] = AmbiguousError

\* C7: whenever the locations of a protocol report more than one distinct
\* brain area, make raises the 'Multiple different brain areas' ValueError
\* whatever the ml coordinates are (all-zero included); no laterality is
\* derived and no row is stored.
C7_BrainAreaCheckFirst ==
    \A key \in Protocols :
        (psRaised[key] # NotRun /\ ~ SameBrainArea(key)) =>
            /\ psRaised[key] = MultipleAreasError
            /\ lat[key] = NoLat
            /\ RowsOf(key) = {}

C7_Witness ==
    \E key \in Protocols :
        /\ ~ SameBrainArea(key)
        /\ \A i \in LocsOf(key) : MlAt(i) = 0
        /\ psRaised[key] = MultipleAreasError

\* ---- make as a reduction of the set of location rows ----
AreaSet(key) == {PhotostimLocation[i].brain_area : i \in LocsOf(key)}

MlSet(key) == {MlAt(i) : i \in LocsOf(key)}

\* the outcome of make as a function of the set of location rows alone
SetOutcome(key) ==
    LET pos == \E m \in MlSet(key) : m > 0
        neg == \E m \in MlSet(key) : m < 0
        zero == 0 \in MlSet(key)
    IN IF Cardinality(AreaSet(key)) > 1 THEN [raised |-> MultipleAreasError, lat |-> NoLat]
       ELSE IF pos /\ neg THEN [raised |-> NoError, lat |-> "both"]
       ELSE IF LocsOf(key) = {} THEN [raised |-> IndexFailed, lat |-> NoLat]
       ELSE IF pos /\ ~ zero THEN [raised |-> NoError, lat |-> "right"]
       ELSE IF neg /\ ~ zero THEN [raised |-> NoError, lat |-> "left"]
       ELSE IF pos \/ neg THEN [raised |-> AssertionFailed, lat |-> NoLat]
       ELSE [raised |-> AmbiguousError, lat |-> NoLat]

SetRow(key) ==
    [key |-> key, stim_brain_area |-> CHOOSE a \in AreaSet(key) : TRUE,
     stim_laterality |-> SetOutcome(key).lat]

\* the protocols for which this step's run of make ended without an error
NewlyMade == {k \in Protocols : psRaised[k] # NoError /\ psRaised'[k] = NoError}

\* C20: make is a deterministic, all-or-nothing reduction: a run ends the
\* way the set of location rows of the protocol decides, whatever their
\* order; a successful run adds exactly one row for the protocol, holding
\* the brain area and laterality of that set; a run that raises adds no row;
\* no run changes another row or the location table.
C20_DeterministicAllOrNothing ==
    [][/\ PhotostimLocation' = PhotostimLocation
       /\ \A k \in Protocols :
            psRaised'[k] # psRaised[k] => psRaised'[k] = SetOutcome(k).raised
       /\ PhotostimBrainRegion' = PhotostimBrainRegion \cup {SetRow(k) : k \in NewlyMade}
       /\ \A k \in NewlyMade : RowsOf(k) = {}]_vars

C20_Witness ==
    /\ Len(PhotostimLocation) = 3
    /\ MlAt(1) = -3 /\ MlAt(2) = 5 /\ MlAt(3) = 0
    /\ LocsOf(1) = {1, 2} /\ LocsOf(2) = {3}
    /\ psRaised[1] = NoError
    /\ psRaised[2] = AmbiguousError
    /\ PhotostimBrainRegion =
           {[key |-> 1, stim_brain_area |-> "M2", stim_laterality |-> "both"]}

\* ========================================================================
\* Properties of Breathing.make
\* ========================================================================
\* the segmentation loop has run to its end
LoopDone == brRaised = NotSubscriptable

NumTrials == Len(trial_starts_indices)

StreamLen == Len(rawData)

\* the factor the code is to apply to a raw sample, by declared sensor type
ExpectedFactor == IF meta.typeThis = "imec" THEN 1000000 * meta.convIM ELSE 1000 * meta.convNI

\* the gain-corrected channel, position by position
CorrectedStream == [j \in 1..StreamLen |-> ExpectedFactor * rawData[j]]

\* C2: the last trial's segment spans [start_last, end-of-stream): it holds
\* every sample from start_last up to and including the final sample.
C2_LastSegmentToEndOfStream ==
    (LoopDone /\ NumTrials >= 1) =>
        all_trials_data[NumTrials] =
            SubSeq(CorrectedStream, trial_starts_indices[NumTrials] + 1, StreamLen)

\* C3: for every trial i before the last one, the segment holds exactly the
\* samples at positions [start_i, start_{i+1}) of the channel, in order, also
\* when consecutive starts are equal or a start equals the last start.
C3_SegmentUpToNextStart ==
    LoopDone =>
        \A i \in 1..(NumTrials - 1) :
            all_trials_data[i] =
                SubSeq(CorrectedStream, trial_starts_indices[i] + 1,
                       Min2(trial_starts_indices[i + 1], StreamLen))

\* C4: concatenating all per-trial segments in trial order (the scalar gain
\* undone) reconstructs the channel stream exactly: no sample is lost and
\* none is duplicated.  Stated for the lists the round trip can hold for at
\* all: at least one trial, the first trial starting at the first sample.
C4_RoundTrip ==
    (LoopDone /\ NumTrials >= 1 /\ trial_starts_indices[1] = 0) =>
        Flatten(all_trials_data) = CorrectedStream

\* C9: every sample that appears in a segment equals the raw sample at its
\* position times the gain factor chosen by meta['typeThis'] alone (probe
\* gain times 1e6 for 'imec', analog-input gain times 1e3 otherwise),
\* applied exactly once.
C9_GainAppliedOnce ==
    \A k \in DOMAIN all_trials_data :
        \A j \in DOMAIN all_trials_data[k] :
            /\ trial_starts_indices[k] + j <= StreamLen
            /\ all_trials_data[k][j] =
                   (IF meta.typeThis = "imec" THEN 1000000 * meta.convIM
                                              ELSE 1000 * meta.convNI)
                   * rawData[trial_starts_indices[k] + j]

C9_Witness ==
    /\ LoopDone
    /\ meta.typeThis = "imec"
    /\ NumTrials = 2
    /\ Len(all_trials_data[1]) >= 1
    /\ Len(all_trials_data[2]) >= 1

\* C10: make builds exactly one one-dimensional vector per trial-start
\* index, in trial order (the k-th vector starts at the k-th trial start);
\* the vectors may differ in length.
C10_OneVectorPerTrial ==
    /\ pc = "segment" => Len(all_trials_data) = idx
    /\ LoopDone =>
        /\ Len(all_trials_data) = NumTrials
        /\ \A k \in 1..NumTrials :
             /\ all_trials_data[k] \in Seq(Int)
             /\ \A j \in DOMAIN all_trials_data[k] :
                  /\ trial_starts_indices[k] + j <= StreamLen
                  /\ all_trials_data[k][j] = breathing_data[1][trial_starts_indices[k] + j]

C10_Witness ==
    /\ LoopDone
    /\ NumTrials = 3
    /\ Len(all_trials_data) = 3
    /\ Len(all_trials_data[1]) = 2
    /\ Len(all_trials_data[2]) = 1
    /\ Len(all_trials_data[3]) = 0

\* the call got past the search for the session directory
DirFound == session_ephys_dir # 0

\* C11: if zero trial-start indices are found for a session, make fails
\* with the 'data not found' condition and stores no output.
C11_ZeroTrialsDataNotFound ==
    (pc = "raised" /\ DirFound /\ NumTrials = 0) =>
        /\ brRaised = FileNotFound
        /\ Breathing = {}

\* C12: make tries the configured rig paths in order and uses the first one
\* that yields a session directory; if none does (an empty list included)
\* it raises FileNotFoundError before any bitcode is built, any stream is
\* read or any segment is produced.
C12_FirstRigPathOrNotFound ==
    pc # "rigpaths" =>
        IF \E i \in DOMAIN rigpaths : rigpaths[i]
        THEN /\ session_ephys_dir \in DOMAIN rigpaths
             /\ rigpaths[session_ephys_dir]
             /\ \A j \in 1..(session_ephys_dir - 1) : ~ rigpaths[j]
             /\ brRaised # FileNotFound
        ELSE /\ pc = "raised"
             /\ brRaised = FileNotFound
             /\ session_ephys_dir = 0
             /\ trial_start_times = <<>>
             /\ meta = NoMeta
             /\ rawData = <<>>
             /\ breathing_data = <<>>
             /\ all_trials_data = <<>>
             /\ Breathing = {}

C12_Witness ==
    /\ rigpaths = <<FALSE, TRUE>>
    /\ session_ephys_dir = 2
    /\ LoopDone
    /\ NumTrials = 2

\* C13: the number of bitcode-derived trial-start indices equals the number
\* of behavioral trials of the session; when the counts differ processing
\* stops with the data-availability error instead of segmenting a truncated
\* or extended list of trials.
C13_TrialCountsAgree ==
    /\ pc = "segment" => NumTrials = Cardinality(SessionTrial)
    /\ (pc = "raised" /\ DirFound /\ Len(trial_start_times) # Cardinality(SessionTrial)) =>
           /\ brRaised = FileNotFound
           /\ all_trials_data = <<>>

\* the call has ended: Breathing.make left by an exception (it has no other
\* way out, see InsertTrials)
MakeExited == pc = "raised"

\* C21: the raw stream opened by Breathing.make is released on every exit
\* path of the call: once the call has ended, after a failure of the
\* session-directory search as after a failure of the insertion, no handle
\* to the stream is held.
C21_StreamReleasedOnExit ==
    MakeExited => openHandles = {}

\* ========================================================================
\* Properties of the alignment-name fallback
\* ========================================================================
\* the names of AlignTypeNames that contain 'trial_start', with their
\* '_bitcode' forms
BitcodeForm ==
    [a \in {"trial_start", "next_trial_start", "trial_start_bitcode"} |->
        CASE a = "trial_start" -> "trial_start_bitcode"
          [] a = "next_trial_start" -> "next_trial_start_bitcode"
          [] a = "trial_start_bitcode" -> "trial_start_bitcode_bitcode"]

\* C8: in both plotting functions the requested alignment names are
\* rewritten if and only if the unit's session has zero 'zaberready' trial
\* events; then every name containing 'trial_start' gets '_bitcode' appended
\* and every other name is unchanged, length and order preserved; with at
\* least one such event every name is used unmodified.
C8_AlignmentFallback ==
    alCaller # "none" =>
        /\ Len(align_types) = Len(requested)
        /\ \A i \in DOMAIN requested :
             IF zaberready = 0 /\ requested[i] \in DOMAIN BitcodeForm
             THEN align_types[i] = BitcodeForm[requested[i]]
             ELSE align_types[i] = requested[i]

C8_Witness ==
    /\ alCaller = "plot_unit_psth_latent_variable_quantile"
    /\ zaberready = 0
    /\ requested = <<"go_cue", "next_trial_start">>
    /\ align_types = <<"go_cue", "next_trial_start_bitcode">>

\* ---- the quantile partition ----
InQuantile == alCaller = "plot_unit_psth_latent_variable_quantile"

\* the frame has been fetched and the function went on to pd.qcut
Partitioned == InQuantile /\ alPc \in {"loop", "done", "raised"}

Trials == DOMAIN df

ValueOf(t) == df[t].value

GroupOf(t) == df[t].quantile_rank

FiniteValues == {ValueOf(t) : t \in Trials} \ {NaN}

AssignedGroups == {GroupOf(t) : t \in Trials} \ {NaN}

\* the names psth_foraging.AlignType declares
KnownAlignTypes == {"trial_start", "go_cue", "iti_start", "next_trial_start",
                    "trial_start_bitcode", "next_trial_start_bitcode"}

DeclaredOffset(a) == IF a \in {"next_trial_start", "next_trial_start_bitcode"} THEN 1 ELSE 0

\* C14: in plot_unit_psth_latent_variable_quantile, for an alignment type
\* with trial offset d, a trial t of a quantile group is addressed at t + d
\* and kept if and only if t + d is an existing behavior trial; the trial set
\* of a group holds nothing else (no index wrapped around or clamped).
C14_TrialOffsetRule ==
    \A i \in DOMAIN psths :
        psths[i].cond = "quantile" =>
            LET d == DeclaredOffset(psths[i].align_type)
                group == {t \in Trials : GroupOf(t) = psths[i].rank}
            IN psths[i].trials = {t + d : t \in {u \in group : u + d \in BehaviorTrial}}

C14_Witness ==
    \E i \in DOMAIN psths :
        /\ psths[i].cond = "quantile"
        /\ psths[i].align_type = "next_trial_start"
        /\ GroupOf(Len(df)) = psths[i].rank
        /\ Len(df) + 1 \notin psths[i].trials
        /\ psths[i].trials # {}

\* C15: for every series of finite values and every requested group count
\* k >= 1, the cut assigns every trial exactly one 0-based group index, uses
\* at most k distinct indices, and leaves n_quantile equal to the number of
\* distinct assigned indices.
C15_QuantilePartition ==
    [][(InQuantile /\ alPc = "fetch" /\ alPc' = "loop") =>
          /\ \A t \in DOMAIN df' : df'[t].quantile_rank \in 0..(n_quantile - 1)
          /\ n_quantile' <= n_quantile
          /\ n_quantile' = Cardinality({df'[t].quantile_rank : t \in DOMAIN df'} \ {NaN})]_vars

\* C16: quantile order equals value order: of two partitioned trials, the
\* one in the lower group has the smaller value, and trials with equal
\* values are in the same group.
C16_QuantileOrderIsValueOrder ==
    Partitioned =>
        \A a, b \in Trials :
            /\ (GroupOf(a) # NaN /\ GroupOf(b) # NaN /\ GroupOf(a) < GroupOf(b))
                   => ValueOf(a) < ValueOf(b)
            /\ ValueOf(a) = ValueOf(b) => GroupOf(a) = GroupOf(b)

C16_Witness ==
    /\ Partitioned
    /\ Len(df) = 3
    /\ Cardinality(AssignedGroups) = 2
    /\ Cardinality(FiniteValues) = 3

\* C17: with fewer than 2 distinct finite values in the series the function
\* refuses to partition: it returns before any PSTH is computed and never
\* goes through the alignment loop.
C17_RefusesWithoutVariation ==
    (InQuantile /\ alPc # "fetch" /\ Cardinality(FiniteValues) < 2) =>
        /\ psths = <<>>
        /\ alPc = "returned"

\* C18 (as stated): when the series has NaN values and at least 2 distinct
\* finite values, the trials with finite values are still partitioned and
\* analysed, and the NaN trials are left out.
C18_FiniteTrialsStillAnalysed ==
    (InQuantile /\ alPc \in {"returned", "done"} /\ NaN \in {ValueOf(t) : t \in Trials}
       /\ Cardinality(FiniteValues) >= 2) =>
        /\ \A t \in Trials : ValueOf(t) # NaN <=> GroupOf(t) # NaN
        /\ alPc = "done"

\* C18 (amended): when the series has at least one NaN value the function
\* prints a message and returns before partitioning, however many finite
\* values there are: no trial gets a group, no PSTH is computed, no error
\* is raised.
C18_ReturnsOnAnyNaN ==
    (InQuantile /\ alPc # "fetch" /\ NaN \in {ValueOf(t) : t \in Trials}) =>
        /\ alPc = "returned"
        /\ AssignedGroups = {}
        /\ psths = <<>>
        /\ alRaised = NoError

C18_Witness ==
    /\ InQuantile
    /\ alPc = "returned"
    /\ Len(df) = 3
    /\ ValueOf(2) = NaN
    /\ Cardinality(FiniteValues) = 2

\* C22: range(n_quantile) visits every assigned group: after the cut the
\* set of assigned group indices is exactly {0, ..., n_quantile - 1}, so no
\* iterated rank is empty and no trial with a group is left out of the
\* grouped PSTHs. Stated for series with at least 2 distinct values, where
\* the cut assigns every trial a group.
C22_RanksAreContiguous ==
    (Partitioned /\ Cardinality(FiniteValues) >= 2) =>
        AssignedGroups = 0..(n_quantile - 1)

\* the psths and markers computed by this step
NewPsths == (DOMAIN psths') \ (DOMAIN psths)

NewMarkers == (DOMAIN vlines') \ (DOMAIN vlines)

\* C23: in the alignment loop the shift is applied to a copy: a step leaves
\* the base table (trial numbers, values, groups) as it was fetched, every
\* alignment type shifts the original trial numbers by exactly its own
\* offset whatever was processed before, and the trial set of the
\* event-time markers is the unshifted one (in both plotting functions).
C23_ShiftOnCopy ==
    [][(alCaller # "none" /\ alPc = "loop") =>
          /\ df' = df
          /\ IsFrame(df')
          /\ \A i \in NewPsths :
               /\ psths'[i].offset = DeclaredOffset(psths'[i].align_type)
               /\ InQuantile =>
                    psths'[i].trials =
                        BehaviorTrial \cap {t + psths'[i].offset :
                                              t \in {u \in Trials : GroupOf(u) = psths'[i].rank}}
          /\ \A i \in NewMarkers :
               /\ vlines'[i].offset = 0
               /\ InQuantile => vlines'[i].trials = BehaviorTrial \cap Trials]_vars

C23_Witness ==
    /\ InQuantile
    /\ align_types = <<"next_trial_start", "go_cue">>
    /\ alPc = "done"
    /\ Len(df) = 3
    /\ Len(vlines) = 2
    /\ vlines[2].trials = {1, 2, 3}
    /\ \E i, j \in DOMAIN psths :
         /\ psths[i].align_type = "next_trial_start" /\ psths[i].trials = {2, 3}
         /\ psths[j].align_type = "go_cue" /\ psths[j].trials = {1, 2}
         /\ psths[i].rank = psths[j].rank

\* ---- unknown alignment names ----
UnknownRequested == \E i \in DOMAIN align_types : align_types[i] \notin KnownAlignTypes

Finished == alPc \in {"returned", "done", "raised"}

NothingForUnknown == \A i \in DOMAIN psths : psths[i].align_type \in KnownAlignTypes

\* C19 (as stated): an alignment name that is unknown after the fallback
\* rewrite makes either plotting function fail with an error; nothing is
\* computed for the unknown name.
C19_UnknownAlignmentFails ==
    /\ NothingForUnknown
    /\ (alCaller # "none" /\ UnknownRequested /\ Finished) => alRaised = DataJointError

\* C19 (amended): an unknown alignment name makes the function fail with an
\* error when the alignment loop reaches it, and nothing is ever computed
\* for it; plot_unit_psth_latent_variable_quantile reaches the loop only
\* when the series has no NaN, otherwise it returns without an error and
\* without computing any PSTH.
C19_UnknownAlignmentFailsInLoop ==
    /\ NothingForUnknown
    /\ (alCaller # "none" /\ UnknownRequested /\ Finished) =>
          \/ alRaised = DataJointError
          \/ /\ InQuantile
             /\ alPc = "returned"
             /\ NaN \in {ValueOf(t) : t \in Trials}
             /\ psths = <<>>

C19_Witness ==
    /\ alCaller = "plot_unit_psth_choice_outcome"
    /\ zaberready = 0
    /\ requested = <<"go_cue", "trial_start_bitcode">>
    /\ align_types = <<"go_cue", "trial_start_bitcode_bitcode">>
    /\ alRaised = DataJointError
    /\ Len(psths) = 4

\* ---- hemisphere-relative conditions ----
\* the port on the side of the recorded hemisphere, and the other one
IpsiPort == IF hemi = "left" THEN "left" ELSE "right"

ContraPort == IF hemi = "left" THEN "right" ELSE "left"

PortLetter(port) == IF port = "left" THEN "L" ELSE "R"

RequestedSuffix == IF if_exclude_early_lick THEN "_noearlylick" ELSE ""

\* the conditions computed for the k-th alignment type, in order
CondsOfAlignType(k) == [j \in 1..4 |-> psths[4 * (k - 1) + j].cond]

\* C24: the ipsi port is the left one exactly when the hemisphere is
\* 'left' and the right one for every other value, the contra port is the
\* opposite one; plot_unit_psth and plot_unit_psth_choice_outcome use the
\* same mapping; the conditions of an alignment type are exactly ipsi hit,
\* contra hit, ipsi miss, contra miss, each with the '_noearlylick' suffix
\* if and only if early-lick exclusion was requested.
C24_HemisphereRelativeConditions ==
    /\ alCaller = "plot_unit_psth_choice_outcome" =>
         /\ Len(psths) = 4 * ax_i
         /\ \A k \in 1..ax_i :
              /\ CondsOfAlignType(k) =
                     <<PortLetter(IpsiPort) \o "_hit" \o RequestedSuffix,
                       PortLetter(ContraPort) \o "_hit" \o RequestedSuffix,
                       PortLetter(IpsiPort) \o "_miss" \o RequestedSuffix,
                       PortLetter(ContraPort) \o "_miss" \o RequestedSuffix>>
              /\ Cardinality(Range(CondsOfAlignType(k))) = 4
    /\ alCaller = "plot_unit_psth" =>
         /\ trial_condition_names =
                <<"good_noearlylick_" \o IpsiPort \o "_hit",
                  "good_noearlylick_" \o ContraPort \o "_hit",
                  "good_noearlylick_" \o IpsiPort \o "_miss",
                  "good_noearlylick_" \o ContraPort \o "_miss">>
         /\ Cardinality(Range(trial_condition_names)) = 4

C24_Witness ==
    /\ alCaller = "plot_unit_psth_choice_outcome"
    /\ hemi = "both"
    /\ if_exclude_early_lick
    /\ ax_i = 2
    /\ CondsOfAlignType(2) = <<"R_hit_noearlylick", "L_hit_noearlylick",
                               "R_miss_noearlylick", "L_miss_noearlylick">>
====
